---- MODULE Spec2Model ----
(***************************************************************************)
(* Model of SmartWaterManagement (src/server/model.py).                    *)
(*                                                                         *)
(* Timestamps are integers counting clock ticks; TicksPerHour ticks make   *)
(* one hour and HoursPerDay hours one calendar day.  Usage values are      *)
(* exact rationals [n, d] (d > 0, lowest terms); a missing value (NaN) is  *)
(* a row with na = TRUE.  Quantities the code rounds to two decimals are   *)
(* integers counting hundredths.  Floating-point rounding error of the     *)
(* mean is not modelled: arithmetic is exact.                              *)
(*                                                                         *)
(* The statistical libraries are outside the repository.  Their numeric    *)
(* outputs (the one-step forecast, the outlier score) and whether the      *)
(* ARIMA fit or forecast raises are inputs of the call that uses them.     *)
(* Prophet.fit raises when its frame has fewer than two rows; an           *)
(* attribute that was never assigned raises AttributeError.                *)
(***************************************************************************)
EXTENDS Integers, Sequences, FiniteSets

\* ---------------------------------------------------------------- bounds
MaxCsvRows == 2
MaxRows == 3
MaxDay == 8
MaxTickOfDay == 1
TicksPerHour == 2

\* ------------------------------------------------------ program constants
HoursPerDay == 24
LastWeekDays == 7
ForecastPeriods == 7

TicksPerDay == TicksPerHour * HoursPerDay

\* ------------------------------------------------------------ input sets
\* total_water_usage values, live_flow_rate values, outlier scores (counting
\* 1/100000), one-step forecasts (counting 1/1000), and the persisted
\* history: usage values and stamps from the week before the clock starts
UsageVals == {-4, 4}
LiveVals == {0, 4, 5, 6}
ScoreVals == {-30000, 12346}
ForecastVals == {3456}
CsvVals == {4}
CsvTimes == {1, (LastWeekDays - 1) * TicksPerDay}
StartNow == LastWeekDays * TicksPerDay

\* ------------------------------------------------------------- rationals
Abs(x) == IF x < 0 THEN -x ELSE x

RECURSIVE GCD(_, _)
GCD(a, b) == IF b = 0 THEN a ELSE GCD(b, a % b)

Rat(n, d) == LET g == GCD(Abs(n), d) IN [n |-> n \div g, d |-> d \div g]

RAdd(a, b) == Rat(a.n * b.d + b.n * a.d, a.d * b.d)

Zero == [n |-> 0, d |-> 1]

\* round(x, k): nearest, ties to even; num/den with den > 0
RoundHalfEven(num, den) ==
    LET q == num \div den
        r == num % den
    IN  IF 2 * r < den THEN q
        ELSE IF 2 * r > den THEN q + 1
        ELSE IF q % 2 = 0 THEN q ELSE q + 1

\* ------------------------------------------------------------ data frame
NaRow(t) == [ts |-> t, na |-> TRUE, usage |-> Zero]
ValRow(t, v) == [ts |-> t, na |-> FALSE, usage |-> v]

\* keep='first' in place of keep='last'
RECURSIVE DropDuplicatedKeepFirst(_)
DropDuplicatedKeepFirst(s) ==
    IF s = <<>> THEN <<>>
    ELSE IF \E j \in 1..(Len(s) - 1) : s[j].ts = s[Len(s)].ts
         THEN DropDuplicatedKeepFirst(SubSeq(s, 1, Len(s) - 1))
         ELSE DropDuplicatedKeepFirst(SubSeq(s, 1, Len(s) - 1)) \o <<s[Len(s)]>>

\* df[~df.index.duplicated(keep='last')]
RECURSIVE DropDuplicatedKeepLast(_)
DropDuplicatedKeepLast(s) ==
    IF s = <<>> THEN <<>>
    ELSE IF \E j \in 2..Len(s) : s[j].ts = s[1].ts
         THEN DropDuplicatedKeepLast(Tail(s))
         ELSE <<s[1]>> \o DropDuplicatedKeepLast(Tail(s))

RECURSIVE InsertSorted(_, _)
InsertSorted(r, s) ==
    IF s = <<>> THEN <<r>>
    ELSE IF r.ts < s[1].ts THEN <<r>> \o s
    ELSE <<s[1]>> \o InsertSorted(r, Tail(s))

\* df.sort_index()
RECURSIVE SortIndex(_)
SortIndex(s) ==
    IF s = <<>> THEN <<>>
    ELSE InsertSorted(s[Len(s)], SortIndex(SubSeq(s, 1, Len(s) - 1)))

\* df.dropna()
RECURSIVE DropNa(_)
DropNa(s) ==
    IF s = <<>> THEN <<>>
    ELSE IF s[1].na THEN DropNa(Tail(s))
    ELSE <<s[1]>> \o DropNa(Tail(s))

RECURSIVE SumUsage(_)
SumUsage(s) == IF s = <<>> THEN Zero ELSE RAdd(s[1].usage, SumUsage(Tail(s)))

\* df["water_usage"].mean(): skips NaN; NaN when nothing is left
Mean(s) ==
    LET c == DropNa(s)
    IN  IF c = <<>> THEN [na |-> TRUE, v |-> Zero]
        ELSE LET t == SumUsage(c)
             IN  [na |-> FALSE, v |-> Rat(t.n, t.d * Len(c))]

\* fillna(method="ffill"): carry the last value seen forward
RECURSIVE FFillFrom(_, _)
FFillFrom(prev, s) ==
    IF s = <<>> THEN <<>>
    ELSE IF s[1].na
         THEN <<[s[1] EXCEPT !.na = prev.na, !.usage = prev.usage]>>
              \o FFillFrom(prev, Tail(s))
         ELSE <<s[1]>> \o FFillFrom(s[1], Tail(s))

FFill(s) == FFillFrom(NaRow(0), s)

\* fillna(value): NaN as the value leaves the column as it is
FillNa(s, m) ==
    [i \in 1..Len(s) |->
        IF s[i].na /\ ~m.na THEN ValRow(s[i].ts, m.v) ELSE s[i]]

\* load_data, the branch taken when the file exists
LoadData(rows) ==
    LET sorted == SortIndex(DropDuplicatedKeepLast(rows))
        carried == FFill(sorted)
    IN  FillNa(carried, Mean(carried))

\* floor to the calendar day / to the hour
DayOf(t) == t \div TicksPerDay
FloorH(t) == t - (t % TicksPerHour)

\* number of rows of s.resample('D').sum(): one per day from first to last
ResampleDCount(s) ==
    IF s = <<>> THEN 0 ELSE DayOf(s[Len(s)].ts) - DayOf(s[1].ts) + 1

\* df.last("7D"): rows strictly after (last index - 7 days)
Last7D(s) ==
    IF s = <<>> THEN <<>>
    ELSE LET start == s[Len(s)].ts - LastWeekDays * TicksPerDay
         IN  SelectSeq(s, LAMBDA r : r.ts > start)

\* ---------------------------------------------------------------- models
Unset == [set |-> FALSE, fitted |-> FALSE, data |-> <<>>]
Unfitted == [set |-> TRUE, fitted |-> FALSE, data |-> <<>>]
FittedOn(c) == [set |-> TRUE, fitted |-> TRUE, data |-> c]
\* ARIMA(series, order=(5,1,0)): the specification bound to its series
ArimaOn(c) == [set |-> TRUE, fitted |-> FALSE, data |-> c]

\* Prophet.fit raises ValueError on fewer than two rows
ProphetFitRaises(c) == ResampleDCount(c) < 2

\* train_models on frame d, starting from the attributes in old
TrainModels(d, arimaOk, old) ==
    LET cleaned == DropNa(d)
    IN  IF cleaned = <<>> THEN [old EXCEPT !.raised = "none"]
        ELSE IF ~arimaOk
        THEN [old EXCEPT !.model_arima = ArimaOn(cleaned), !.raised = "ARIMA.fit"]
        ELSE IF ProphetFitRaises(cleaned)
        THEN [model_arima |-> ArimaOn(cleaned),
              model_fit |-> FittedOn(cleaned),
              iso_forest |-> FittedOn(cleaned),
              prophet_model |-> Unfitted,
              raised |-> "Prophet.fit"]
        ELSE [model_arima |-> ArimaOn(cleaned),
              model_fit |-> FittedOn(cleaned),
              iso_forest |-> FittedOn(cleaned),
              prophet_model |-> FittedOn(cleaned),
              raised |-> "none"]

\* ------------------------------------------------------------ classifier
\* live > average, live < average * 1.5; any comparison with NaN is false
LiveAboveMean(live, average) ==
    ~average.na /\ live * average.v.d > average.v.n

\* live <= threshold in place of live < threshold
LiveNotAboveThreshold(live, average) ==
    ~average.na /\ 2 * live * average.v.d <= 3 * average.v.n

LiveBelowThreshold(live, average) ==
    ~average.na /\ 2 * live * average.v.d < 3 * average.v.n

LeakStatus(live, average) ==
    IF LiveAboveMean(live, average)
    THEN IF LiveBelowThreshold(live, average)
         THEN "Potential Leak" ELSE "Leak Detected"
    ELSE "Normal"

\* min(1, (live - average) / (threshold - average)), taken when live > average;
\* a zero divisor gives +inf in float64 arithmetic, and min(1, inf) is 1
OveruseFactor(live, average) ==
    LET num == Rat(live * average.v.d - average.v.n, average.v.d)
        den == Rat(average.v.n, 2 * average.v.d)
    IN  IF den.n = 0 THEN [n |-> 1, d |-> 1]
        ELSE LET ratio == IF den.n > 0
                          THEN Rat(num.n * den.d, num.d * den.n)
                          ELSE Rat(-(num.n * den.d), num.d * (-den.n))
             IN  IF ratio.n < ratio.d THEN ratio ELSE [n |-> 1, d |-> 1]

Min(a, b) == IF b < a THEN b ELSE a
Max(a, b) == IF b > a THEN b ELSE a

\* leak_probability in hundredths; score counts 1/100000
LeakProbability(live, average, score) ==
    IF LiveAboveMean(live, average)
    THEN LET f == OveruseFactor(live, average)
         IN  RoundHalfEven(f.n * 10000, f.d)
    ELSE Max(0, Min(10000, RoundHalfEven(score, 10)))

\* round(mean, 2) in hundredths
RoundedMean(s) ==
    LET m == Mean(s)
    IN  IF m.na THEN [na |-> TRUE, v |-> 0]
        ELSE [na |-> FALSE, v |-> RoundHalfEven(m.v.n * 100, m.v.d)]

\* ----------------------------------------------------------------- state
VARIABLES csv_exists, csv, df, model_arima, model_fit, iso_forest,
          prophet_model, now, pc, call, ret

vars == <<csv_exists, csv, df, model_arima, model_fit, iso_forest,
          prophet_model, now, pc, call, ret>>

NoCall == [op |-> "none", total_kind |-> "None", total |-> 0, hour |-> 0,
           accepted |-> FALSE, had_slot |-> FALSE, fit_raised |-> "none",
           forecast_raised |-> FALSE]

NoRet == [raised |-> FALSE, live_flow_rate |-> 0, expected_na |-> FALSE,
          expected_usage |-> 0, leak_status |-> "", leak_probability |-> 0,
          n_predicted |-> 0, n_last_week |-> 0]

Raised == [NoRet EXCEPT !.raised = TRUE]

CsvRows == {NaRow(t) : t \in CsvTimes}
           \cup {ValRow(t, Rat(v, 1)) : t \in CsvTimes, v \in CsvVals}

RECURSIVE SeqsUpTo(_, _)
SeqsUpTo(S, k) ==
    IF k = 0 THEN {<<>>}
    ELSE LET shorter == SeqsUpTo(S, k - 1)
         IN  shorter \cup {Append(q, x) : q \in shorter, x \in S}

Init ==
    /\ csv_exists \in BOOLEAN
    /\ csv \in SeqsUpTo(CsvRows, MaxCsvRows)
    /\ (~csv_exists => csv = <<>>)
    /\ df = <<>>
    /\ model_arima = Unset
    /\ model_fit = Unset
    /\ iso_forest = Unset
    /\ prophet_model = Unset
    /\ now = StartNow
    /\ pc = "Uninitialized"
    /\ call = NoCall
    /\ ret = NoRet

Attrs == [model_arima |-> model_arima, model_fit |-> model_fit,
          iso_forest |-> iso_forest, prophet_model |-> prophet_model,
          raised |-> "none"]

\* __init__: load_data, then train_models; an exception leaves no object
Construct ==
    /\ pc = "Uninitialized"
    /\ call.op = "none"
    /\ \E arimaOk \in BOOLEAN :
         LET loaded == LoadData(csv)
             tr == TrainModels(loaded, arimaOk, Attrs)
             ok == csv_exists /\ tr.raised = "none"
         IN  /\ call' = [NoCall EXCEPT !.op = "init",
                                       !.fit_raised = IF csv_exists THEN tr.raised
                                                      ELSE "none"]
             /\ ret' = IF ok THEN NoRet ELSE Raised
             /\ pc' = IF ok THEN "Constructed" ELSE "Failed"
             /\ df' = IF ok THEN loaded ELSE df
             /\ model_arima' = IF ok THEN tr.model_arima ELSE model_arima
             /\ model_fit' = IF ok THEN tr.model_fit ELSE model_fit
             /\ iso_forest' = IF ok THEN tr.iso_forest ELSE iso_forest
             /\ prophet_model' = IF ok THEN tr.prophet_model ELSE prophet_model
    /\ UNCHANGED <<csv_exists, csv, now>>

TotalInputs ==
    {[kind |-> k, v |-> 0] : k \in {"None", "NaN", "Str"}}
    \cup {[kind |-> "Num", v |-> x] : x \in UsageVals}

HasSlot(s, t) == \E i \in 1..Len(s) : s[i].ts = t

\* lines 39-44: concat the new entry, drop duplicated stamps, sort
AppendEntry(s, t, v) ==
    SortIndex(DropDuplicatedKeepLast(Append(s, ValRow(FloorH(t), Rat(v, 1)))))

\* library outcomes are drawn only on the paths that consult them
Consulted(used, S, default) == IF used THEN S ELSE {default}

AfterTotal(total, arimaOk) ==
    IF total.kind = "Num"
    THEN [df |-> AppendEntry(df, now, total.v),
          tr |-> TrainModels(AppendEntry(df, now, total.v), arimaOk, Attrs)]
    ELSE [df |-> df, tr |-> Attrs]

ReachesForecast(total, arimaOk) ==
    LET a == AfterTotal(total, arimaOk)
    IN  total.kind # "Str" /\ a.tr.raised = "none" /\ a.tr.model_fit.set

ReachesScore(live, total, arimaOk) ==
    LET a == AfterTotal(total, arimaOk)
    IN  /\ total.kind # "Str" /\ a.tr.raised = "none" /\ a.tr.iso_forest.fitted
        /\ ~LiveAboveMean(live, Mean(a.df))

DetectLeak ==
    /\ pc = "Constructed"
    /\ call.op = "none"
    /\ \E live \in LiveVals, total \in TotalInputs :
       \E arimaOk \in Consulted(total.kind = "Num", BOOLEAN, TRUE) :
       \E fcOk \in Consulted(ReachesForecast(total, arimaOk), BOOLEAN, TRUE),
          fc \in ForecastVals,
          score \in Consulted(ReachesScore(live, total, arimaOk), ScoreVals, 0) :
         LET typeError == total.kind = "Str"
             accepted == total.kind = "Num"
             df1 == AfterTotal(total, arimaOk).df
             tr == AfterTotal(total, arimaOk).tr
             fcRaised == ~tr.model_fit.set \/ ~fcOk
             expected == IF fcRaised THEN RoundedMean(df1)
                         ELSE [na |-> FALSE, v |-> RoundHalfEven(fc, 10)]
             average == Mean(df1)
             returns == ~typeError /\ tr.raised = "none" /\ tr.iso_forest.fitted
         IN  /\ accepted => (Len(df) < MaxRows \/ HasSlot(df, FloorH(now)))
             /\ call' = [op |-> "detect_leak",
                         total_kind |-> total.kind, total |-> total.v,
                         hour |-> FloorH(now), accepted |-> accepted,
                         had_slot |-> accepted /\ HasSlot(df, FloorH(now)),
                         fit_raised |-> tr.raised,
                         forecast_raised |->
                             ~typeError /\ tr.raised = "none" /\ fcRaised]
             /\ df' = df1
             /\ csv' = IF accepted THEN df1 ELSE csv
             /\ csv_exists' = (csv_exists \/ accepted)
             /\ model_arima' = tr.model_arima
             /\ model_fit' = tr.model_fit
             /\ iso_forest' = tr.iso_forest
             /\ prophet_model' = tr.prophet_model
             /\ ret' = IF ~returns THEN Raised
                       ELSE [NoRet EXCEPT
                               !.live_flow_rate = live,
                               !.expected_na = expected.na,
                               !.expected_usage = expected.v,
                               !.leak_status = LeakStatus(live, average),
                               !.leak_probability =
                                   LeakProbability(live, average, score)]
    /\ UNCHANGED <<now, pc>>

PredictWeeklyUsage ==
    /\ pc = "Constructed"
    /\ call.op = "none"
    /\ call' = [NoCall EXCEPT !.op = "predict_weekly_usage"]
    /\ ret' = IF ~prophet_model.fitted THEN Raised
              ELSE [NoRet EXCEPT !.n_predicted = ForecastPeriods,
                                 !.n_last_week = ResampleDCount(Last7D(df))]
    /\ UNCHANGED <<csv_exists, csv, df, model_arima, model_fit, iso_forest,
                   prophet_model, now, pc>>

\* the wall clock moves between calls: one tick, to the next midnight,
\* or one whole day
Tick ==
    /\ call.op = "none"
    /\ \E delta \in {1, TicksPerDay - (now % TicksPerDay), TicksPerDay} :
         /\ DayOf(now + delta) <= MaxDay
         /\ (now + delta) % TicksPerDay <= MaxTickOfDay
         /\ now' = now + delta
    /\ UNCHANGED <<csv_exists, csv, df, model_arima, model_fit, iso_forest,
                   prophet_model, pc, call, ret>>

\* the caller takes the result (or the exception); every operation runs to
\* completion before the next one starts
Return ==
    /\ call.op # "none"
    /\ call' = NoCall
    /\ ret' = NoRet
    /\ UNCHANGED <<csv_exists, csv, df, model_arima, model_fit, iso_forest,
                   prophet_model, now, pc>>

Next == Construct \/ DetectLeak \/ PredictWeeklyUsage \/ Tick \/ Return

Spec == Init /\ [][Next]_vars

\* ---------------------------------------------------------------- claims
Returned == call.op = "detect_leak" /\ ~ret.raised

\* the historical mean as sum over count of the values held
HeldSum == SumUsage(DropNa(df))
HeldCount == Len(DropNa(df))

\* C1: every leak_probability that detect_leak returns lies within [0, 100]
\* (hundredths: 0..10000), in the over-mean branch and in the Normal branch,
\* the mean being zero or negative included.
C1_ProbabilityWithinRange ==
    Returned => (ret.leak_probability >= 0 /\ ret.leak_probability <= 10000)

\* C2: with no persisted series at start, construction completes without an
\* error and the store is empty.
C2_MissingFileGivesEmptyStore ==
    (call.op = "init" /\ ~csv_exists) =>
        (~ret.raised /\ pc = "Constructed" /\ df = <<>>)

\* C3: when the ARIMA fit of the retrain or the one-step forecast raises,
\* detect_leak still returns, with expected_usage the series mean rounded to
\* two decimals.
C3_ForecastFailureFallsBack ==
    (call.op = "detect_leak"
        /\ (call.fit_raised = "ARIMA.fit" \/ call.forecast_raised)) =>
        (/\ ~ret.raised
         /\ ret.expected_na = RoundedMean(df).na
         /\ ret.expected_usage = RoundedMean(df).v)

\* C4: after a detect_leak call that accepted an observation, the three
\* models are all fitted on the cleaned current store.
C4_ModelsFittedOnCurrentStore ==
    (call.op = "detect_leak" /\ call.accepted) =>
        (/\ model_fit = FittedOn(DropNa(df))
         /\ iso_forest = FittedOn(DropNa(df))
         /\ prophet_model = FittedOn(DropNa(df)))

\* C5: in every state after construction all three fitted models exist.
C5_ConstructedIsTrained ==
    pc = "Constructed" =>
        (model_fit.fitted /\ iso_forest.fitted /\ prophet_model.fitted)

\* C6: a detect_leak call whose total_usage is absent, NaN or non-numeric
\* leaves the store, the persisted snapshot and the models as they were and
\* returns a classification.
C6_NoObservationNoChange ==
    [][(call'.op = "detect_leak" /\ ~call'.accepted) =>
         (/\ df' = df /\ csv' = csv /\ csv_exists' = csv_exists
          /\ model_arima' = model_arima /\ model_fit' = model_fit
          /\ iso_forest' = iso_forest /\ prophet_model' = prophet_model
          /\ ~ret'.raised)]_vars

ValuesAt(s, t) == {s[i].usage : i \in {j \in 1..Len(s) : s[j].ts = t /\ ~s[j].na}}

\* C7: an accepted observation for an hour slot the store already holds
\* leaves the number of observations unchanged, and after any accepted
\* observation the store holds exactly the value just written for that hour.
C7_AppendIdempotentPerHour ==
    [][(call'.op = "detect_leak" /\ call'.accepted) =>
         (/\ ValuesAt(df', call'.hour) = {Rat(call'.total, 1)}
          /\ Cardinality({i \in 1..Len(df') : df'[i].ts = call'.hour}) = 1
          /\ HasSlot(df, call'.hour) => Len(df') = Len(df))]_vars

C7_Witness ==
    /\ call.op = "detect_leak" /\ call.accepted /\ call.had_slot
    /\ call.total = -4
    /\ Len(df) = 2

\* C8: predict_weekly_usage returns exactly 7 predicted entries and at most
\* 7 last_week_usage entries.
C8_WeeklyEntryCounts ==
    (call.op = "predict_weekly_usage" /\ ~ret.raised) =>
        (ret.n_predicted = 7 /\ ret.n_last_week <= 7)

\* C9: the returned leak_status is "Normal" exactly when live <= mean,
\* "Potential Leak" exactly when mean < live < 1.5 * mean, and
\* "Leak Detected" exactly when live > mean and live >= 1.5 * mean.
C9_StatusByMeanAndThreshold ==
    Returned =>
        LET live == ret.live_flow_rate
            aboveMean == live * HeldCount * HeldSum.d > HeldSum.n
            belowThreshold == 2 * live * HeldCount * HeldSum.d < 3 * HeldSum.n
        IN  /\ (ret.leak_status = "Normal") <=> ~aboveMean
            /\ (ret.leak_status = "Potential Leak") <=>
                   (aboveMean /\ belowThreshold)
            /\ (ret.leak_status = "Leak Detected") <=>
                   (aboveMean /\ ~belowThreshold)

\* live_flow_rate exactly on the threshold of a positive mean
C9_Witness ==
    /\ Returned
    /\ HeldSum.n > 0
    /\ 2 * ret.live_flow_rate * HeldCount * HeldSum.d = 3 * HeldSum.n
    /\ ret.leak_status = "Leak Detected"

\* C10: whenever live_flow_rate is above the mean and above 1.5 * mean, the
\* result is "Leak Detected" with leak_probability 100.0.
C10_AboveThresholdIsCertain ==
    (/\ Returned
     /\ ret.live_flow_rate * HeldCount * HeldSum.d > HeldSum.n
     /\ 2 * ret.live_flow_rate * HeldCount * HeldSum.d > 3 * HeldSum.n) =>
        (ret.leak_status = "Leak Detected" /\ ret.leak_probability = 10000)

====
